---------------------------- MODULE Spec2Model ----------------------------
(***************************************************************************)
(* The entity model of app/models.py: the declared tables (SQLModel,       *)
(* table=True) with their unique keys, foreign keys, enumerated columns    *)
(* and decimal columns, the seven non-persistent Create schemas            *)
(* (table=False), and the store those declarations describe.               *)
(*                                                                         *)
(* The source holds declarations only.  A write is modelled as the         *)
(* declarations make it: a payload is validated against the class's        *)
(* fields (required, type, enumeration, decimal places), the storage       *)
(* assigns the identifier, and the declared unique and foreign-key         *)
(* constraints decide whether the row is stored.  Nothing else is          *)
(* computed on a write, because no class declares a method, a validator    *)
(* or a computed column.                                                   *)
(***************************************************************************)
EXTENDS Integers, Sequences, FiniteSets, TLC

VARIABLES
    db,          \* table name -> sequence of stored rows; a row's id is its index
    violations,  \* the constraint kinds the last write violated ({} : accepted)
    validated,   \* the outcome of the last Create-schema validation
    family       \* the entity family the behaviour populates

vars == <<db, violations, validated, family>>

---------------------------------------------------------------------------
(* Values.  Every field value is a tagged record, so that values of        *)
(* different Python types can be compared.                                 *)

None == [none |-> TRUE]
Str(s) == [str |-> s]
IntV(i) == [int |-> i]
Bool(b) == [bool |-> b]
\* decimal.Decimal: a coefficient and the number of digits after the point,
\* Decimal("100.00") = Dec(10000, 2), Decimal("0") = Dec(0, 0).
Dec(c, p) == [coef |-> c, places |-> p]
\* datetime: an abstract instant.
Dt(t) == [dt |-> t]

IsStr(v) == DOMAIN v = {"str"}
IsInt(v) == DOMAIN v = {"int"}
IsBool(v) == DOMAIN v = {"bool"}
IsDec(v) == DOMAIN v = {"coef", "places"}
IsDt(v) == DOMAIN v = {"dt"}

\* datetime.utcnow(), the default_factory of the timestamp columns.
utcnow == Dt(0)

RECURSIVE Pow10(_)
Pow10(n) == IF n = 0 THEN 1 ELSE 10 * Pow10(n - 1)

\* Decimal arithmetic as Python's decimal module does it (exact; the
\* result's exponent is the sum for *, the smaller exponent for +).
DecMul(a, b) == Dec(a.coef * b.coef, a.places + b.places)
DecAdd(a, b) ==
    LET p == IF a.places >= b.places THEN a.places ELSE b.places
    IN  Dec(a.coef * Pow10(p - a.places) + b.coef * Pow10(p - b.places), p)
\* Decimal.__eq__: numeric equality, whatever the exponents (both sides are
\* read at the larger number of places).
DecEq(a, b) ==
    DecAdd(a, Dec(0, b.places)).coef = DecAdd(b, Dec(0, a.places)).coef

---------------------------------------------------------------------------
(* Enumerations (models.py:9-76): the string tokens of each str Enum.      *)

UserRole ==
    {"firm_admin", "managing_partner", "attorney", "paralegal",
     "accounting_staff", "client", "hr_representative", "company_manager",
     "individual_employee"}
ClientType == {"individual", "organization"}
CaseStatus == {"pending", "active", "completed", "stopped"}
ActivityBillableStatus == {"non_billable", "billable", "billed"}
ActivityStatus == {"pending", "in_progress", "completed", "cancelled"}
BillingModel == {"hourly", "flat_fee", "contingency", "retainer"}
ExpenseType == {"reimbursable", "non_reimbursable"}
ResourceType == {"attorney", "paralegal", "admin"}
TransactionType == {"payment", "refund", "adjustment", "billing"}
AccountType == {"asset", "liability", "equity", "revenue", "expense"}

EnumNames ==
    {"UserRole", "ClientType", "CaseStatus", "ActivityBillableStatus",
     "ActivityStatus", "BillingModel", "ExpenseType", "ResourceType",
     "TransactionType", "AccountType"}

EnumMembers(ty) ==
    CASE ty = "UserRole" -> UserRole
      [] ty = "ClientType" -> ClientType
      [] ty = "CaseStatus" -> CaseStatus
      [] ty = "ActivityBillableStatus" -> ActivityBillableStatus
      [] ty = "ActivityStatus" -> ActivityStatus
      [] ty = "BillingModel" -> BillingModel
      [] ty = "ExpenseType" -> ExpenseType
      [] ty = "ResourceType" -> ResourceType
      [] ty = "TransactionType" -> TransactionType
      [] ty = "AccountType" -> AccountType
      [] OTHER -> {}

---------------------------------------------------------------------------
(* Field declarations.  One record per annotated attribute:                *)
(*   name: type                      Col(name, type)                       *)
(*   name: Optional[type] = None     Opt(name, type)                       *)
(*   name: type = Field(default=d)   Def(name, type, d)                    *)
(* and the Field(...) arguments unique=True, foreign_key="t.id",           *)
(* decimal_places=k, primary_key=True as Unique, FK, Places, PK.           *)
(* max_length is not modelled: no string of the model is that long.        *)

Col(n, ty) ==
    [name |-> n, type |-> ty, nullable |-> FALSE, required |-> TRUE,
     default |-> None, unique |-> FALSE, fk |-> "", places |-> -1,
     pk |-> FALSE]
Opt(n, ty) == [Col(n, ty) EXCEPT !.nullable = TRUE, !.required = FALSE]
Def(n, ty, d) == [Col(n, ty) EXCEPT !.required = FALSE, !.default = d]
Unique(c) == [c EXCEPT !.unique = TRUE]
FK(c, t) == [c EXCEPT !.fk = t]
Places(c, k) == [c EXCEPT !.places = k]
PK == [Opt("id", "int") EXCEPT !.pk = TRUE]

---------------------------------------------------------------------------
(* Persistent entities (table=True), in source order.                      *)

User ==
    << PK, Unique(Col("email", "str")), Col("first_name", "str"),
       Col("last_name", "str"), Col("role", "UserRole"),
       Def("is_active", "bool", Bool(TRUE)), Opt("phone", "str"),
       Places(Opt("hourly_rate", "Decimal"), 2),
       Def("created_at", "datetime", utcnow),
       Def("updated_at", "datetime", utcnow) >>

Client ==
    << PK, Col("client_type", "ClientType"), Opt("first_name", "str"),
       Opt("last_name", "str"), Opt("date_of_birth", "datetime"),
       Opt("organization_name", "str"), Opt("tax_id", "str"),
       Opt("email", "str"), Opt("phone", "str"), Opt("address_line1", "str"),
       Opt("address_line2", "str"), Opt("city", "str"), Opt("state", "str"),
       Opt("zip_code", "str"), Opt("country", "str"),
       Def("is_active", "bool", Bool(TRUE)),
       Def("created_at", "datetime", utcnow),
       Def("updated_at", "datetime", utcnow) >>

BeneficiaryRelationship ==
    << PK, FK(Col("beneficiary_id", "int"), "clients"),
       FK(Col("dependent_id", "int"), "clients"),
       Col("relationship_type", "str"),
       Def("created_at", "datetime", utcnow) >>

CaseType ==
    << PK, Col("name", "str"), Opt("description", "str"),
       Col("default_billing_model", "BillingModel"),
       Places(Opt("default_hourly_rate", "Decimal"), 2),
       Places(Opt("default_flat_fee", "Decimal"), 2),
       Def("is_active", "bool", Bool(TRUE)),
       Def("created_at", "datetime", utcnow) >>

Case ==
    << PK, Unique(Col("case_number", "str")), Col("title", "str"),
       Opt("description", "str"), Def("status", "CaseStatus", Str("pending")),
       FK(Col("client_id", "int"), "clients"),
       FK(Col("case_type_id", "int"), "case_types"),
       FK(Opt("assigned_attorney_id", "int"), "users"),
       Col("billing_model", "BillingModel"),
       Places(Opt("hourly_rate", "Decimal"), 2),
       Places(Opt("flat_fee", "Decimal"), 2),
       Places(Opt("contingency_percentage", "Decimal"), 2),
       Places(Opt("retainer_amount", "Decimal"), 2),
       Opt("opened_date", "datetime"), Opt("closed_date", "datetime"),
       Def("created_at", "datetime", utcnow),
       Def("updated_at", "datetime", utcnow) >>

OpposingParty ==
    << PK, FK(Col("case_id", "int"), "cases"), Col("party_type", "ClientType"),
       Opt("first_name", "str"), Opt("last_name", "str"),
       Opt("organization_name", "str"), Opt("email", "str"),
       Opt("phone", "str"), Opt("address_line1", "str"), Opt("city", "str"),
       Opt("state", "str"), Opt("counsel_name", "str"),
       Opt("counsel_firm", "str"), Opt("counsel_email", "str"),
       Opt("counsel_phone", "str"), Def("created_at", "datetime", utcnow) >>

Jurisdiction ==
    << PK, Col("name", "str"), Col("jurisdiction_type", "str"),
       Opt("description", "str"), Def("created_at", "datetime", utcnow) >>

CaseJurisdiction ==
    << PK, FK(Col("case_id", "int"), "cases"),
       FK(Col("jurisdiction_id", "int"), "jurisdictions"),
       Def("is_primary", "bool", Bool(FALSE)),
       Def("created_at", "datetime", utcnow) >>

Document ==
    << PK, FK(Col("case_id", "int"), "cases"), Col("title", "str"),
       Opt("description", "str"), Col("file_path", "str"),
       Col("file_name", "str"), Col("file_size", "int"),
       Col("mime_type", "str"), FK(Col("uploaded_by_id", "int"), "users"),
       Def("uploaded_at", "datetime", utcnow) >>

Activity ==
    << PK, FK(Col("case_id", "int"), "cases"),
       FK(Opt("assigned_user_id", "int"), "users"), Col("title", "str"),
       Opt("description", "str"), Col("activity_type", "str"),
       Def("status", "ActivityStatus", Str("pending")),
       Def("billable_status", "ActivityBillableStatus", Str("non_billable")),
       Opt("due_date", "datetime"), Opt("completed_date", "datetime"),
       Def("is_court_date", "bool", Bool(FALSE)),
       Def("is_critical_deadline", "bool", Bool(FALSE)),
       Def("created_at", "datetime", utcnow),
       Def("updated_at", "datetime", utcnow) >>

TimeEntry ==
    << PK, FK(Col("activity_id", "int"), "activities"),
       FK(Col("user_id", "int"), "users"),
       Places(Col("hours", "Decimal"), 1),
       Places(Col("rate_per_hour", "Decimal"), 2),
       Places(Col("total_amount", "Decimal"), 2),
       Col("description", "str"), Col("date", "datetime"),
       Def("billable_status", "ActivityBillableStatus", Str("billable")),
       Def("created_at", "datetime", utcnow) >>

Expense ==
    << PK, FK(Col("case_id", "int"), "cases"),
       FK(Col("user_id", "int"), "users"), Col("description", "str"),
       Col("expense_type", "ExpenseType"),
       Places(Col("amount", "Decimal"), 2),
       Places(Def("markup_percentage", "Decimal", Dec(0, 0)), 2),
       Places(Col("total_amount", "Decimal"), 2),
       Col("expense_date", "datetime"), Col("category", "str"),
       Opt("vendor", "str"), Opt("receipt_file_path", "str"),
       Def("is_reimbursed", "bool", Bool(FALSE)),
       Def("created_at", "datetime", utcnow) >>

Invoice ==
    << PK, FK(Col("case_id", "int"), "cases"),
       Unique(Col("invoice_number", "str")), Col("invoice_date", "datetime"),
       Col("due_date", "datetime"),
       Places(Def("subtotal_time", "Decimal", Dec(0, 0)), 2),
       Places(Def("subtotal_expenses", "Decimal", Dec(0, 0)), 2),
       Places(Col("total_amount", "Decimal"), 2), Col("status", "str"),
       Opt("notes", "str"), Def("created_at", "datetime", utcnow),
       Opt("sent_at", "datetime"), Opt("paid_at", "datetime") >>

InvoiceLineItem ==
    << PK, FK(Col("invoice_id", "int"), "invoices"),
       FK(Opt("time_entry_id", "int"), "time_entries"),
       FK(Opt("expense_id", "int"), "expenses"), Col("line_type", "str"),
       Col("date", "datetime"), Col("resource_name", "str"),
       Col("resource_type", "ResourceType"), Col("description", "str"),
       Places(Col("quantity", "Decimal"), 3),
       Places(Col("rate", "Decimal"), 2),
       Places(Col("amount", "Decimal"), 2),
       Def("created_at", "datetime", utcnow) >>

TrustAccount ==
    << PK, Col("account_name", "str"), Unique(Col("account_number", "str")),
       Col("bank_name", "str"),
       Places(Def("current_balance", "Decimal", Dec(0, 0)), 2),
       Def("is_active", "bool", Bool(TRUE)),
       Def("created_at", "datetime", utcnow) >>

TrustTransaction ==
    << PK, FK(Col("trust_account_id", "int"), "trust_accounts"),
       FK(Col("case_id", "int"), "cases"),
       Col("transaction_type", "TransactionType"),
       Places(Col("amount", "Decimal"), 2), Col("description", "str"),
       Opt("reference_number", "str"), Col("transaction_date", "datetime"),
       Def("created_at", "datetime", utcnow) >>

Account ==
    << PK, Unique(Col("account_number", "str")), Col("account_name", "str"),
       Col("account_type", "AccountType"),
       FK(Opt("parent_account_id", "int"), "accounts"),
       Opt("description", "str"), Def("is_active", "bool", Bool(TRUE)),
       Def("created_at", "datetime", utcnow) >>

JournalEntry ==
    << PK, FK(Col("account_id", "int"), "accounts"),
       Col("entry_date", "datetime"), Opt("reference_number", "str"),
       Col("description", "str"),
       Places(Def("debit_amount", "Decimal", Dec(0, 0)), 2),
       Places(Def("credit_amount", "Decimal", Dec(0, 0)), 2),
       Opt("source_type", "str"), Opt("source_id", "int"),
       Def("created_at", "datetime", utcnow),
       FK(Col("created_by_id", "int"), "users") >>

(* Non-persistent Create schemas (table=False).                            *)

UserCreate ==
    << Col("email", "str"), Col("first_name", "str"), Col("last_name", "str"),
       Col("role", "UserRole"), Opt("phone", "str"),
       Places(Opt("hourly_rate", "Decimal"), 2) >>

ClientCreate ==
    << Col("client_type", "ClientType"), Opt("first_name", "str"),
       Opt("last_name", "str"), Opt("organization_name", "str"),
       Opt("email", "str"), Opt("phone", "str") >>

CaseCreate ==
    << Col("case_number", "str"), Col("title", "str"),
       Opt("description", "str"), Col("client_id", "int"),
       Col("case_type_id", "int"), Opt("assigned_attorney_id", "int"),
       Col("billing_model", "BillingModel") >>

ActivityCreate ==
    << Col("case_id", "int"), Opt("assigned_user_id", "int"),
       Col("title", "str"), Opt("description", "str"),
       Col("activity_type", "str"), Opt("due_date", "datetime"),
       Def("is_court_date", "bool", Bool(FALSE)),
       Def("is_critical_deadline", "bool", Bool(FALSE)) >>

TimeEntryCreate ==
    << Col("activity_id", "int"), Col("user_id", "int"),
       Places(Col("hours", "Decimal"), 1),
       Places(Col("rate_per_hour", "Decimal"), 2),
       Col("description", "str"), Col("date", "datetime") >>

ExpenseCreate ==
    << Col("case_id", "int"), Col("user_id", "int"),
       Col("description", "str"), Col("expense_type", "ExpenseType"),
       Places(Col("amount", "Decimal"), 2),
       Places(Def("markup_percentage", "Decimal", Dec(0, 0)), 2),
       Col("expense_date", "datetime"), Col("category", "str"),
       Opt("vendor", "str") >>

InvoiceCreate ==
    << Col("case_id", "int"), Col("invoice_date", "datetime"),
       Col("due_date", "datetime"), Opt("notes", "str") >>

\* __tablename__ of each entity.
Tables ==
    {"users", "clients", "beneficiary_relationships", "case_types", "cases",
     "opposing_parties", "jurisdictions", "case_jurisdictions", "documents",
     "activities", "time_entries", "expenses", "invoices",
     "invoice_line_items", "trust_accounts", "trust_transactions",
     "accounts", "journal_entries"}

Schemas ==
    {"UserCreate", "ClientCreate", "CaseCreate", "ActivityCreate",
     "TimeEntryCreate", "ExpenseCreate", "InvoiceCreate"}

\* The declared fields of a table's entity or of a Create schema.
Fields(cls) ==
    CASE cls = "users" -> User
      [] cls = "clients" -> Client
      [] cls = "beneficiary_relationships" -> BeneficiaryRelationship
      [] cls = "case_types" -> CaseType
      [] cls = "cases" -> Case
      [] cls = "opposing_parties" -> OpposingParty
      [] cls = "jurisdictions" -> Jurisdiction
      [] cls = "case_jurisdictions" -> CaseJurisdiction
      [] cls = "documents" -> Document
      [] cls = "activities" -> Activity
      [] cls = "time_entries" -> TimeEntry
      [] cls = "expenses" -> Expense
      [] cls = "invoices" -> Invoice
      [] cls = "invoice_line_items" -> InvoiceLineItem
      [] cls = "trust_accounts" -> TrustAccount
      [] cls = "trust_transactions" -> TrustTransaction
      [] cls = "accounts" -> Account
      [] cls = "journal_entries" -> JournalEntry
      [] cls = "UserCreate" -> UserCreate
      [] cls = "ClientCreate" -> ClientCreate
      [] cls = "CaseCreate" -> CaseCreate
      [] cls = "ActivityCreate" -> ActivityCreate
      [] cls = "TimeEntryCreate" -> TimeEntryCreate
      [] cls = "ExpenseCreate" -> ExpenseCreate
      [] cls = "InvoiceCreate" -> InvoiceCreate

---------------------------------------------------------------------------
(* Validation of a payload against a class's declared fields (`cols`).     *)

Names(cols) == {cols[i].name : i \in DOMAIN cols}
Column(cols, n) == cols[CHOOSE i \in DOMAIN cols : cols[i].name = n]

\* A boundary that reads an enumerated field as the plain string its members
\* are.
Conforms_EnumAsStr(c, v) ==
    IF v = None THEN c.nullable
    ELSE CASE c.type = "int" -> IsInt(v)
           [] c.type = "bool" -> IsBool(v)
           [] c.type = "datetime" -> IsDt(v)
           [] c.type = "Decimal" ->
                IsDec(v) /\ (c.places >= 0 => v.places <= c.places)
           [] OTHER -> IsStr(v)

\* A value conforms to a field's annotation: None only where the field is
\* Optional, an enumerated field only a member's token, a Decimal at most
\* decimal_places digits after the point.
Conforms(c, v) ==
    IF v = None THEN c.nullable
    ELSE CASE c.type = "str" -> IsStr(v)
           [] c.type = "int" -> IsInt(v)
           [] c.type = "bool" -> IsBool(v)
           [] c.type = "datetime" -> IsDt(v)
           [] c.type = "Decimal" ->
                IsDec(v) /\ (c.places >= 0 => v.places <= c.places)
           [] OTHER -> IsStr(v) /\ v.str \in EnumMembers(c.type)

\* A validation that asks for no field.
Missing_Nothing(cols, data) == {}

\* The required fields a payload does not give.
Missing(cols, data) ==
    {cols[i].name : i \in
        {j \in DOMAIN cols :
            cols[j].required /\ cols[j].name \notin DOMAIN data}}

\* The given fields whose value does not conform.
Invalid(cols, data) ==
    {cols[i].name : i \in
        {j \in DOMAIN cols :
            /\ cols[j].name \in DOMAIN data
            /\ ~Conforms(cols[j], data[cols[j].name])}}

\* cls(**data): rejected when a required field is missing or a given value
\* does not conform; otherwise the object, every field not given at its
\* declared default.
ModelValidate(cols, data) ==
    [ok |-> Missing(cols, data) = {} /\ Invalid(cols, data) = {},
     missing |-> Missing(cols, data),
     invalid |-> Invalid(cols, data),
     value |-> [n \in Names(cols) |->
                  IF n \in DOMAIN data THEN data[n]
                  ELSE Column(cols, n).default]]

---------------------------------------------------------------------------
(* The declared storage constraints, read on row i of table t (declared    *)
(* by `cols`) of a database d.                                             *)

\* A storage that does not enforce unique=True.
UniqueViolated_Unenforced(d, t, cols, i) == FALSE

\* unique=True: another row of the table holds the same value.
UniqueViolated(d, t, cols, i) ==
    \E k \in DOMAIN cols :
        /\ cols[k].unique
        /\ \E j \in DOMAIN d[t] :
              j # i /\ d[t][j][cols[k].name] = d[t][i][cols[k].name]

\* A storage that does not enforce foreign_key=.
ForeignKeyViolated_Unenforced(d, t, cols, i) == FALSE

\* foreign_key="<table>.id": a non-null value that is no row's id.
ForeignKeyViolated(d, t, cols, i) ==
    \E k \in DOMAIN cols :
        /\ cols[k].fk # ""
        /\ d[t][i][cols[k].name] # None
        /\ d[t][i][cols[k].name].int \notin DOMAIN d[cols[k].fk]

StorageViolations(d, t, cols, i) ==
    (IF UniqueViolated(d, t, cols, i)
     THEN {"UniquenessViolation"} ELSE {})
    \cup
    (IF ForeignKeyViolated(d, t, cols, i)
     THEN {"ReferentialIntegrityError"} ELSE {})

---------------------------------------------------------------------------
(* Writes.                                                                 *)

\* A payload field the caller leaves out.
Omit == [omit |-> TRUE]
Given(data) == [n \in {m \in DOMAIN data : data[m] # Omit} |-> data[n]]

\* The outcome of a write: the store becomes `after` unless the write
\* violated something, and then it stays as it is.
Commit(after, viol) ==
    /\ violations' = viol
    /\ db' = IF viol = {} THEN after ELSE db
    /\ UNCHANGED <<validated, family>>

\* The store with row i of table t written, if the declared constraints
\* hold of it there.
Write(t, cols, i, after) == Commit(after, StorageViolations(after, t, cols, i))

\* The storage's insert of a validated entity: it assigns the next id.
InsertRow(t, cols, v) ==
    IF v.ok
    THEN Write(t, cols, Len(db[t]) + 1,
               [db EXCEPT ![t] =
                   Append(@, [v.value EXCEPT !["id"] = IntV(Len(db[t]) + 1)])])
    ELSE Commit(db, {"ValidationError"})

\* Persist an entity built from `data`: the entity's own field declarations
\* are checked, then the storage's constraints.
Insert(t, cols, data) == InsertRow(t, cols, ModelValidate(cols, data))

\* The entity built from a validated Create object and the fields the schema
\* does not carry (`extra`, which the caller supplies), persisted.
InsertFrom(t, cols, v, extra) ==
    IF v.ok THEN Insert(t, cols, extra @@ v.value)
    ELSE Commit(db, {"ValidationError"})

\* Validate a payload with a Create schema, then persist the entity.
CreateFrom(schema, t, cols, payload, extra) ==
    InsertFrom(t, cols, ModelValidate(schema, payload), extra)

\* A free-form write of one field of a stored row.
Update(t, cols, i, n, v) ==
    /\ i \in DOMAIN db[t]
    /\ n \in Names(cols) \ {"id"}
    /\ IF Conforms(Column(cols, n), v)
       THEN Write(t, cols, i, [db EXCEPT ![t][i][n] = v])
       ELSE Commit(db, {"ValidationError"})

---------------------------------------------------------------------------
(* One create per entity.  The parameters are the fields the properties    *)
(* read (keys, references, categories, decimals); every other required     *)
(* field gets one value of its type.  An entity with a Create schema is    *)
(* created through it.                                                     *)

CreateUser(email, role) ==
    CreateFrom(UserCreate, "users", User,
        [email |-> Str(email), first_name |-> Str("x"),
         last_name |-> Str("x"), role |-> Str(role)],
        <<>>)

CreateClient(client_type) ==
    CreateFrom(ClientCreate, "clients", Client,
        [client_type |-> Str(client_type)], <<>>)

CreateBeneficiaryRelationship(beneficiary_id, dependent_id) ==
    Insert("beneficiary_relationships", BeneficiaryRelationship,
        [beneficiary_id |-> IntV(beneficiary_id),
         dependent_id |-> IntV(dependent_id),
         relationship_type |-> Str("x")])

CreateCaseType(billing_model) ==
    Insert("case_types", CaseType,
        [name |-> Str("x"), default_billing_model |-> Str(billing_model)])

CreateCase(case_number, client_id, case_type_id, attorney, billing_model) ==
    CreateFrom(CaseCreate, "cases", Case,
        [case_number |-> Str(case_number), title |-> Str("x"),
         client_id |-> IntV(client_id), case_type_id |-> IntV(case_type_id),
         assigned_attorney_id |-> attorney,
         billing_model |-> Str(billing_model)],
        <<>>)

CreateOpposingParty(case_id, party_type) ==
    Insert("opposing_parties", OpposingParty,
        [case_id |-> IntV(case_id), party_type |-> Str(party_type)])

CreateJurisdiction ==
    Insert("jurisdictions", Jurisdiction,
        [name |-> Str("x"), jurisdiction_type |-> Str("x")])

CreateCaseJurisdiction(case_id, jurisdiction_id) ==
    Insert("case_jurisdictions", CaseJurisdiction,
        [case_id |-> IntV(case_id), jurisdiction_id |-> IntV(jurisdiction_id)])

CreateDocument(case_id, uploaded_by_id) ==
    Insert("documents", Document,
        [case_id |-> IntV(case_id), title |-> Str("x"),
         file_path |-> Str("x"), file_name |-> Str("x"),
         file_size |-> IntV(1), mime_type |-> Str("x"),
         uploaded_by_id |-> IntV(uploaded_by_id)])

CreateActivity(case_id, assigned_user) ==
    CreateFrom(ActivityCreate, "activities", Activity,
        [case_id |-> IntV(case_id), assigned_user_id |-> assigned_user,
         title |-> Str("x"), activity_type |-> Str("x")],
        <<>>)

\* TimeEntryCreate carries no total_amount and TimeEntry declares no default
\* for it: the caller supplies it.
CreateTimeEntry(activity_id, user_id, hours, rate, total) ==
    CreateFrom(TimeEntryCreate, "time_entries", TimeEntry,
        [activity_id |-> IntV(activity_id), user_id |-> IntV(user_id),
         hours |-> hours, rate_per_hour |-> rate, description |-> Str("x"),
         date |-> Dt(0)],
        [total_amount |-> total])

\* markup is Omit when the payload leaves markup_percentage out.
CreateExpense(case_id, user_id, expense_type, amount, markup, total) ==
    CreateFrom(ExpenseCreate, "expenses", Expense,
        Given([case_id |-> IntV(case_id), user_id |-> IntV(user_id),
               description |-> Str("x"), expense_type |-> Str(expense_type),
               amount |-> amount, markup_percentage |-> markup,
               expense_date |-> Dt(0), category |-> Str("x")]),
        [total_amount |-> total])

\* InvoiceCreate carries neither invoice_number, total_amount nor status,
\* which Invoice requires: the caller supplies them.
CreateInvoice(case_id, invoice_number, total) ==
    CreateFrom(InvoiceCreate, "invoices", Invoice,
        [case_id |-> IntV(case_id), invoice_date |-> Dt(0),
         due_date |-> Dt(0)],
        [invoice_number |-> Str(invoice_number), total_amount |-> total,
         status |-> Str("Draft")])

CreateInvoiceLineItem(invoice_id, time_entry, expense, resource_type) ==
    Insert("invoice_line_items", InvoiceLineItem,
        [invoice_id |-> IntV(invoice_id), time_entry_id |-> time_entry,
         expense_id |-> expense, line_type |-> Str("time"), date |-> Dt(0),
         resource_name |-> Str("x"), resource_type |-> Str(resource_type),
         description |-> Str("x"), quantity |-> Dec(1000, 3),
         rate |-> Dec(100, 2), amount |-> Dec(100, 2)])

CreateTrustAccount(account_number) ==
    Insert("trust_accounts", TrustAccount,
        [account_name |-> Str("x"), account_number |-> Str(account_number),
         bank_name |-> Str("x")])

CreateTrustTransaction(trust_account_id, case_id, transaction_type, amount) ==
    Insert("trust_transactions", TrustTransaction,
        [trust_account_id |-> IntV(trust_account_id),
         case_id |-> IntV(case_id),
         transaction_type |-> Str(transaction_type), amount |-> amount,
         description |-> Str("x"), transaction_date |-> Dt(0)])

CreateAccount(account_number, account_type, parent) ==
    Insert("accounts", Account,
        [account_number |-> Str(account_number), account_name |-> Str("x"),
         account_type |-> Str(account_type), parent_account_id |-> parent])

\* ref is the reference_number, None when the entry carries none.
CreateJournalEntry(account_id, created_by_id, ref, debit, credit) ==
    Insert("journal_entries", JournalEntry,
        [account_id |-> IntV(account_id), entry_date |-> Dt(0),
         reference_number |-> ref, description |-> Str("x"),
         debit_amount |-> debit, credit_amount |-> credit,
         created_by_id |-> IntV(created_by_id)])

\* The validation of a raw payload by a Create schema, on its own.
Validate(schema, payload) ==
    /\ validated' = [schema |-> schema, payload |-> payload,
                     result |-> ModelValidate(Fields(schema), payload)]
    /\ UNCHANGED <<db, violations, family>>

---------------------------------------------------------------------------
(* Exploration.  The source groups the entities in families (its section   *)
(* comments); a behaviour populates one family and the tables that         *)
(* family's rows reference, directly or through other rows.                *)

Families ==
    {"user", "client", "case", "activity", "expense", "billing", "trust",
     "ledger"}

FamilyTables(f) ==
    CASE f = "user" -> {"users"}
      [] f = "client" -> {"clients", "beneficiary_relationships"}
      [] f = "case" -> {"case_types", "cases", "opposing_parties",
                        "jurisdictions", "case_jurisdictions", "documents"}
      [] f = "activity" -> {"activities", "time_entries"}
      [] f = "expense" -> {"expenses"}
      [] f = "billing" -> {"invoices", "invoice_line_items"}
      [] f = "trust" -> {"trust_accounts", "trust_transactions"}
      [] f = "ledger" -> {"accounts", "journal_entries"}

\* The tables the foreign keys of table t name.
Referenced(t) ==
    {Fields(t)[k].fk : k \in {j \in DOMAIN Fields(t) : Fields(t)[j].fk # ""}}

RECURSIVE Reach(_)
Reach(S) ==
    IF (UNION {Referenced(t) : t \in S}) \subseteq S THEN S
    ELSE Reach(S \cup UNION {Referenced(t) : t \in S})

ScopeOf == [f \in Families |-> Reach(FamilyTables(f))]

\* The tables that declare a unique key.
Keyed ==
    {t \in Tables : \E k \in DOMAIN Fields(t) : Fields(t)[k].unique}

\* Rows per table: MaxKeyed where the key scenario stores two rows under
\* one unique key, MaxRows everywhere else.
MaxRows == 1
MaxKeyed == 2

\* A string that is a member of no enumeration.
Bogus == "superadmin"

Ids(n) == {IntV(i) : i \in 1 .. n}

\* A scenario: the rows each table may hold (cap) and the values the creates
\* (keys .. je_amounts) and the updates (w_refs .. w_decimals) try.
\* Identifier 1 names the first row of a table; the largest identifier
\* offered names a row only once the table is full.

\* References and categories vary: one row per table, every reference is
\* offered an existing and a missing row, every category a member and a
\* non-member; the amounts are those of the spec's examples.
Store ==
    [cap |-> [t \in Tables |-> MaxRows],
     keys |-> {"k1"},
     ids |-> 1 .. (MaxRows + 1),
     opt |-> Ids(MaxRows + 1) \cup {None},
     bogus |-> {Bogus},
     hours |-> {Dec(25, 1)},
     te_totals |-> {Dec(37500, 2)},
     markups |-> {Omit},
     ex_totals |-> {Dec(10000, 2)},
     inv_totals |-> {Dec(0, 2)},
     tx_amounts |-> {Dec(10000, 2)},
     refs |-> {None},
     je_amounts |-> {<<Dec(10000, 2), Dec(0, 0)>>},
     w_refs |-> Ids(MaxRows + 1) \cup {None},
     w_enums |-> {Bogus},
     w_decimals |-> {}]

\* Keys vary: two rows per keyed table, every reference valid.
Keys ==
    [Store EXCEPT
        !.cap = [t \in Tables |-> IF t \in Keyed THEN MaxKeyed ELSE MaxRows],
        !.keys = {"k1", "k2"}, !.ids = {1}, !.opt = {None}, !.bogus = {},
        !.w_refs = {}, !.w_enums = {}]

\* Amounts vary: every reference valid, every category a member; the caller
\* supplies the derived total right or wrong, gives the markup or leaves it
\* out, and updates write another amount.
Amounts ==
    [Store EXCEPT
        !.ids = {1}, !.opt = {None}, !.bogus = {},
        !.te_totals = {Dec(37500, 2), Dec(0, 2)},
        !.markups = {Omit, Dec(1000, 2)},
        !.ex_totals = {Dec(10000, 2), Dec(11000, 2)},
        !.inv_totals = {Dec(0, 2), Dec(55000, 2)},
        !.w_refs = {}, !.w_enums = {}, !.w_decimals = {Dec(5000, 2)}]

\* Journal entries vary: every reference valid; two entries, each a debit or
\* a credit of the same amount under one of two reference numbers, and
\* updates that write another amount.
MaxEntries == 2
Ledger ==
    [Store EXCEPT
        !.cap = [t \in Tables |->
                    IF t = "journal_entries" THEN MaxEntries ELSE MaxRows],
        !.ids = {1}, !.opt = {None}, !.bogus = {},
        !.refs = {Str("r1"), Str("r2")},
        !.je_amounts = {<<Dec(10000, 2), Dec(0, 0)>>,
                        <<Dec(0, 0), Dec(10000, 2)>>},
        !.w_refs = {}, !.w_enums = {}, !.w_decimals = {Dec(5000, 2)}]

\* Billable statuses vary: every reference valid, and updates that write
\* each member of ActivityBillableStatus.
Lifecycle ==
    [Store EXCEPT
        !.ids = {1}, !.opt = {None}, !.bogus = {},
        !.w_refs = {}, !.w_enums = ActivityBillableStatus]

Room(sc, t) == t \in ScopeOf[family] /\ Len(db[t]) < sc.cap[t]

\* The values a scenario's updates try on a stored field.
WriteValues(sc, c) ==
    IF c.fk # "" THEN sc.w_refs
    ELSE IF c.unique THEN {Str(k) : k \in sc.keys}
    ELSE IF c.type \in EnumNames THEN {Str(b) : b \in sc.w_enums}
    ELSE IF c.type = "Decimal" THEN sc.w_decimals
    ELSE {}

Init ==
    /\ db = [t \in Tables |-> <<>>]
    /\ violations = {}
    /\ validated = [schema |-> "", payload |-> <<>>,
                    result |-> [ok |-> FALSE, missing |-> {}, invalid |-> {},
                                value |-> <<>>]]
    /\ family \in Families

CreateRoot(sc) ==
    \/ Room(sc, "users") /\ \E e \in sc.keys, r \in {"attorney"} \cup sc.bogus :
          CreateUser(e, r)
    \/ Room(sc, "clients") /\ \E c \in {"individual"} \cup sc.bogus :
          CreateClient(c)
    \/ Room(sc, "case_types") /\ \E b \in {"hourly"} \cup sc.bogus :
          CreateCaseType(b)
    \/ Room(sc, "jurisdictions") /\ CreateJurisdiction
    \/ Room(sc, "trust_accounts") /\ \E k \in sc.keys : CreateTrustAccount(k)
    \/ Room(sc, "accounts") /\ \E k \in sc.keys, p \in sc.opt,
                                  a \in {"asset"} \cup sc.bogus :
          CreateAccount(k, a, p)

CreateCaseFamily(sc) ==
    \/ Room(sc, "beneficiary_relationships") /\ \E b, d \in sc.ids :
          CreateBeneficiaryRelationship(b, d)
    \/ Room(sc, "cases") /\ \E k \in sc.keys, c, ct \in sc.ids, a \in sc.opt,
                               b \in {"hourly"} \cup sc.bogus :
          CreateCase(k, c, ct, a, b)
    \/ Room(sc, "opposing_parties") /\ \E c \in sc.ids,
                                          p \in {"organization"} \cup sc.bogus :
          CreateOpposingParty(c, p)
    \/ Room(sc, "case_jurisdictions") /\ \E c, j \in sc.ids :
          CreateCaseJurisdiction(c, j)
    \/ Room(sc, "documents") /\ \E c, u \in sc.ids : CreateDocument(c, u)
    \/ Room(sc, "activities") /\ \E c \in sc.ids, u \in sc.opt :
          CreateActivity(c, u)

CreateBillingFamily(sc) ==
    \/ Room(sc, "time_entries") /\ \E a, u \in sc.ids, h \in sc.hours,
                                      x \in sc.te_totals :
          CreateTimeEntry(a, u, h, Dec(15000, 2), x)
    \/ Room(sc, "expenses") /\ \E c, u \in sc.ids, m \in sc.markups,
                                  x \in sc.ex_totals,
                                  e \in {"reimbursable"} \cup sc.bogus :
          CreateExpense(c, u, e, Dec(10000, 2), m, x)
    \/ Room(sc, "invoices") /\ \E c \in sc.ids, k \in sc.keys,
                                  x \in sc.inv_totals :
          CreateInvoice(c, k, x)
    \/ Room(sc, "invoice_line_items") /\ \E i \in sc.ids, te, e \in sc.opt,
                                            r \in {"paralegal"} \cup sc.bogus :
          CreateInvoiceLineItem(i, te, e, r)
    \/ Room(sc, "trust_transactions") /\ \E ta, c \in sc.ids,
                                            ty \in {"payment"} \cup sc.bogus,
                                            x \in sc.tx_amounts :
          CreateTrustTransaction(ta, c, ty, x)
    \/ Room(sc, "journal_entries") /\ \E a, u \in sc.ids, r \in sc.refs,
                                         x \in sc.je_amounts :
          CreateJournalEntry(a, u, r, x[1], x[2])

\* Updates write the rows of the family's own tables.
UpdateIn(sc, t, cols) ==
    /\ t \in FamilyTables(family)
    /\ \E i \in DOMAIN db[t] : \E k \in DOMAIN cols :
          \E v \in WriteValues(sc, cols[k]) :
              Update(t, cols, i, cols[k].name, v)

UpdateField(sc) == \E t \in Tables : UpdateIn(sc, t, Fields(t))

Step(sc) ==
    \/ CreateRoot(sc)
    \/ CreateCaseFamily(sc)
    \/ CreateBillingFamily(sc)
    \/ UpdateField(sc)

Next == Step(Store)
Spec == Init /\ [][Next]_vars

NextKeys == Step(Keys)
SpecKeys == Init /\ [][NextKeys]_vars

NextAmounts == Step(Amounts)
SpecAmounts == Init /\ [][NextAmounts]_vars

NextLedger == Step(Ledger)
SpecLedger == Init /\ [][NextLedger]_vars

NextLifecycle == Step(Lifecycle)
SpecLifecycle == Init /\ [][NextLifecycle]_vars

\* Payloads for the Create schemas: every field is left out, given one
\* value of its declared type, or given None.
Sample(c) ==
    CASE c.type = "str" -> Str("x")
      [] c.type = "int" -> IntV(1)
      [] c.type = "bool" -> Bool(TRUE)
      [] c.type = "datetime" -> Dt(0)
      [] c.type = "Decimal" -> Dec(25, 1)
      [] OTHER -> Str(CHOOSE m \in EnumMembers(c.type) : TRUE)

RECURSIVE Payloads(_, _)
Payloads(cols, k) ==
    IF k = 0 THEN {<<>>}
    ELSE Payloads(cols, k - 1) \cup
         {p @@ (cols[k].name :> v) :
             p \in Payloads(cols, k - 1), v \in {Sample(cols[k]), None}}

\* One payload is validated per behaviour: validation reads and writes
\* nothing but its argument.
NextSchema ==
    /\ validated.schema = ""
    /\ \E s \in Schemas : \E p \in Payloads(Fields(s), Len(Fields(s))) :
          Validate(s, p)

SpecSchema == Init /\ [][NextSchema]_vars

---------------------------------------------------------------------------
(* Properties.                                                             *)

\* Some stored row of table t holds value v in field f.
Stored(t, f, v) == \E i \in DOMAIN db[t] : db[t][i][f] = v

\* The step refused the write: the store is as it was, and `kind` is among
\* the violations reported.
Refused(kind) == violations' # {} /\ db' = db /\ kind \in violations'

\* The five unique keys.
UniqueKeys ==
    {<<"users", "email">>, <<"cases", "case_number">>,
     <<"invoices", "invoice_number">>, <<"trust_accounts", "account_number">>,
     <<"accounts", "account_number">>}

NoSharedKey ==
    \A u \in UniqueKeys : \A i, j \in DOMAIN db[u[1]] :
        i # j => db[u[1]][i][u[2]] # db[u[1]][j][u[2]]

DuplicateCreateRefused ==
    \A k \in Keys.keys :
        /\ (Stored("users", "email", Str(k)) /\ CreateUser(k, "attorney"))
              => Refused("UniquenessViolation")
        /\ (/\ Stored("cases", "case_number", Str(k))
            /\ \E c, ct \in Keys.ids, a \in Keys.opt :
                  CreateCase(k, c, ct, a, "hourly"))
              => Refused("UniquenessViolation")
        /\ (/\ Stored("invoices", "invoice_number", Str(k))
            /\ \E c \in Keys.ids, x \in Keys.inv_totals :
                  CreateInvoice(c, k, x))
              => Refused("UniquenessViolation")
        /\ (/\ Stored("trust_accounts", "account_number", Str(k))
            /\ CreateTrustAccount(k))
              => Refused("UniquenessViolation")
        /\ (/\ Stored("accounts", "account_number", Str(k))
            /\ \E q \in Keys.opt : CreateAccount(k, "asset", q))
              => Refused("UniquenessViolation")

\* C1: for each of the five unique keys (User.email, Case.case_number,
\* Invoice.invoice_number, TrustAccount.account_number,
\* Account.account_number), a create whose key equals that of a stored row of
\* the same entity is refused with UniquenessViolation and leaves the store
\* unchanged; and in every reachable state no two rows of one entity share
\* the key.
C1_UniqueKeys == []NoSharedKey /\ [][DuplicateCreateRefused]_vars

\* C1 witness: a second User with the stored User's email has just been
\* refused (the user family holds one row, so the refused write is a create
\* of a User).
C1_Witness ==
    /\ family = "user"
    /\ Len(db["users"]) = 1
    /\ violations = {"UniquenessViolation"}

\* The fields declared with an enumeration as their type.
EnumFields ==
    {<<"users", "role", UserRole>>,
     <<"clients", "client_type", ClientType>>,
     <<"case_types", "default_billing_model", BillingModel>>,
     <<"cases", "status", CaseStatus>>,
     <<"cases", "billing_model", BillingModel>>,
     <<"opposing_parties", "party_type", ClientType>>,
     <<"activities", "status", ActivityStatus>>,
     <<"activities", "billable_status", ActivityBillableStatus>>,
     <<"time_entries", "billable_status", ActivityBillableStatus>>,
     <<"expenses", "expense_type", ExpenseType>>,
     <<"invoice_line_items", "resource_type", ResourceType>>,
     <<"trust_transactions", "transaction_type", TransactionType>>,
     <<"accounts", "account_type", AccountType>>}

OnlyMembersStored ==
    \A e \in EnumFields : \A i \in DOMAIN db[e[1]] :
        /\ IsStr(db[e[1]][i][e[2]])
        /\ db[e[1]][i][e[2]].str \in e[3]

NonMemberRefused ==
    /\ \A k \in Store.keys : CreateUser(k, Bogus) => Refused("ValidationError")
    /\ CreateClient(Bogus) => Refused("ValidationError")
    /\ CreateCaseType(Bogus) => Refused("ValidationError")
    /\ \A k \in Store.keys, c, ct \in Store.ids, a \in Store.opt :
          CreateCase(k, c, ct, a, Bogus) => Refused("ValidationError")
    /\ \A c \in Store.ids :
          CreateOpposingParty(c, Bogus) => Refused("ValidationError")
    /\ \A c, u \in Store.ids, m \in Store.markups, x \in Store.ex_totals :
          CreateExpense(c, u, Bogus, Dec(10000, 2), m, x)
              => Refused("ValidationError")
    /\ \A i \in Store.ids, te, e \in Store.opt :
          CreateInvoiceLineItem(i, te, e, Bogus) => Refused("ValidationError")
    /\ \A ta, c \in Store.ids, x \in Store.tx_amounts :
          CreateTrustTransaction(ta, c, Bogus, x) => Refused("ValidationError")
    /\ \A k \in Store.keys, q \in Store.opt :
          CreateAccount(k, Bogus, q) => Refused("ValidationError")
    /\ \A e \in EnumFields : \A i \in DOMAIN db[e[1]] :
          Update(e[1], Fields(e[1]), i, e[2], Str(Bogus))
              => Refused("ValidationError")

\* C2: every field declared with an enumeration holds, in every stored row,
\* a member of that enumeration; a create or an update that gives such a
\* field a string outside the enumeration (role "superadmin") is refused with
\* ValidationError and leaves the store unchanged.
C2_EnumMembership == []OnlyMembersStored /\ [][NonMemberRefused]_vars

\* C2 witness: a User with role "superadmin" has just been refused (no User
\* is stored, so the refused write is a create).
C2_Witness ==
    /\ family = "user"
    /\ db["users"] = <<>>
    /\ violations = {"ValidationError"}

\* The declared foreign keys: table, field, referenced table.
ForeignKeys ==
    {<<"beneficiary_relationships", "beneficiary_id", "clients">>,
     <<"beneficiary_relationships", "dependent_id", "clients">>,
     <<"cases", "client_id", "clients">>,
     <<"cases", "case_type_id", "case_types">>,
     <<"cases", "assigned_attorney_id", "users">>,
     <<"opposing_parties", "case_id", "cases">>,
     <<"case_jurisdictions", "case_id", "cases">>,
     <<"case_jurisdictions", "jurisdiction_id", "jurisdictions">>,
     <<"documents", "case_id", "cases">>,
     <<"documents", "uploaded_by_id", "users">>,
     <<"activities", "case_id", "cases">>,
     <<"activities", "assigned_user_id", "users">>,
     <<"time_entries", "activity_id", "activities">>,
     <<"time_entries", "user_id", "users">>,
     <<"expenses", "case_id", "cases">>,
     <<"expenses", "user_id", "users">>,
     <<"invoices", "case_id", "cases">>,
     <<"invoice_line_items", "invoice_id", "invoices">>,
     <<"invoice_line_items", "time_entry_id", "time_entries">>,
     <<"invoice_line_items", "expense_id", "expenses">>,
     <<"trust_transactions", "trust_account_id", "trust_accounts">>,
     <<"trust_transactions", "case_id", "cases">>,
     <<"accounts", "parent_account_id", "accounts">>,
     <<"journal_entries", "account_id", "accounts">>,
     <<"journal_entries", "created_by_id", "users">>}

EveryReferenceResolves ==
    \A f \in ForeignKeys : \A i \in DOMAIN db[f[1]] :
        db[f[1]][i][f[2]] # None =>
            /\ IsInt(db[f[1]][i][f[2]])
            /\ db[f[1]][i][f[2]].int \in DOMAIN db[f[3]]

\* Identifier n names no row of table t; v, a reference or None, names none.
NoRow(t, n) == n \notin DOMAIN db[t]
Dangling(t, v) == v # None /\ NoRow(t, v.int)

\* An Account is written before its parent is looked up, so the one
\* identifier of no stored Account that still resolves is the new row's own.
DanglingParent(v) == Dangling("accounts", v) /\ v.int # Len(db["accounts"]) + 1

DanglingCreateRefused ==
    /\ \A b, d \in Store.ids :
          ((NoRow("clients", b) \/ NoRow("clients", d))
            /\ CreateBeneficiaryRelationship(b, d))
              => Refused("ReferentialIntegrityError")
    /\ \A k \in Store.keys, c, ct \in Store.ids, a \in Store.opt :
          ((NoRow("clients", c) \/ NoRow("case_types", ct)
              \/ Dangling("users", a))
            /\ CreateCase(k, c, ct, a, "hourly"))
              => Refused("ReferentialIntegrityError")
    /\ \A c \in Store.ids :
          (NoRow("cases", c) /\ CreateOpposingParty(c, "organization"))
              => Refused("ReferentialIntegrityError")
    /\ \A c, j \in Store.ids :
          ((NoRow("cases", c) \/ NoRow("jurisdictions", j))
            /\ CreateCaseJurisdiction(c, j))
              => Refused("ReferentialIntegrityError")
    /\ \A c, u \in Store.ids :
          ((NoRow("cases", c) \/ NoRow("users", u)) /\ CreateDocument(c, u))
              => Refused("ReferentialIntegrityError")
    /\ \A c \in Store.ids, u \in Store.opt :
          ((NoRow("cases", c) \/ Dangling("users", u)) /\ CreateActivity(c, u))
              => Refused("ReferentialIntegrityError")
    /\ \A a, u \in Store.ids, h \in Store.hours, x \in Store.te_totals :
          ((NoRow("activities", a) \/ NoRow("users", u))
            /\ CreateTimeEntry(a, u, h, Dec(15000, 2), x))
              => Refused("ReferentialIntegrityError")
    /\ \A c, u \in Store.ids, m \in Store.markups, x \in Store.ex_totals :
          ((NoRow("cases", c) \/ NoRow("users", u))
            /\ CreateExpense(c, u, "reimbursable", Dec(10000, 2), m, x))
              => Refused("ReferentialIntegrityError")
    /\ \A c \in Store.ids, k \in Store.keys, x \in Store.inv_totals :
          (NoRow("cases", c) /\ CreateInvoice(c, k, x))
              => Refused("ReferentialIntegrityError")
    /\ \A i \in Store.ids, te, e \in Store.opt :
          ((NoRow("invoices", i) \/ Dangling("time_entries", te)
              \/ Dangling("expenses", e))
            /\ CreateInvoiceLineItem(i, te, e, "paralegal"))
              => Refused("ReferentialIntegrityError")
    /\ \A ta, c \in Store.ids, x \in Store.tx_amounts :
          ((NoRow("trust_accounts", ta) \/ NoRow("cases", c))
            /\ CreateTrustTransaction(ta, c, "payment", x))
              => Refused("ReferentialIntegrityError")
    /\ \A k \in Store.keys, q \in Store.opt :
          (DanglingParent(q) /\ CreateAccount(k, "asset", q))
              => Refused("ReferentialIntegrityError")
    /\ \A a, u \in Store.ids, r \in Store.refs, x \in Store.je_amounts :
          ((NoRow("accounts", a) \/ NoRow("users", u))
            /\ CreateJournalEntry(a, u, r, x[1], x[2]))
              => Refused("ReferentialIntegrityError")

DanglingUpdateRefused ==
    \A f \in ForeignKeys : \A i \in DOMAIN db[f[1]] : \A v \in Store.w_refs :
        (Dangling(f[3], v) /\ Update(f[1], Fields(f[1]), i, f[2], v))
            => Refused("ReferentialIntegrityError")

RequiredFields ==
    [UserCreate |-> {"email", "first_name", "last_name", "role"},
     ClientCreate |-> {"client_type"},
     CaseCreate |-> {"case_number", "title", "client_id", "case_type_id",
                     "billing_model"},
     ActivityCreate |-> {"case_id", "title", "activity_type"},
     TimeEntryCreate |-> {"activity_id", "user_id", "hours", "rate_per_hour",
                          "description", "date"},
     ExpenseCreate |-> {"case_id", "user_id", "description", "expense_type",
                        "amount", "expense_date", "category"},
     InvoiceCreate |-> {"case_id", "invoice_date", "due_date"}]

\* The optional fields of each Create schema.
OptionalFields ==
    [UserCreate |-> {"phone", "hourly_rate"},
     ClientCreate |-> {"first_name", "last_name", "organization_name",
                       "email", "phone"},
     CaseCreate |-> {"description", "assigned_attorney_id"},
     ActivityCreate |-> {"assigned_user_id", "description", "due_date",
                         "is_court_date", "is_critical_deadline"},
     TimeEntryCreate |-> {},
     ExpenseCreate |-> {"markup_percentage", "vendor"},
     InvoiceCreate |-> {"notes"}]

\* The default of an optional field: False for ActivityCreate's two flags,
\* Decimal("0") for ExpenseCreate.markup_percentage, None for the others.
DeclaredDefault(s, n) ==
    IF s = "ActivityCreate" /\ n \in {"is_court_date", "is_critical_deadline"}
    THEN Bool(FALSE)
    ELSE IF s = "ExpenseCreate" /\ n = "markup_percentage" THEN Dec(0, 0)
    ELSE None

\* The validated payload gives exactly the required fields, each a value.
ExactlyRequired ==
    /\ DOMAIN validated.payload = RequiredFields[validated.schema]
    /\ \A n \in DOMAIN validated.payload : validated.payload[n] # None

\* C3: for each of the seven Create schemas, a payload that leaves out a
\* required field is rejected by validation, and a payload that gives exactly
\* the required fields is accepted, with every optional field at its declared
\* default (None, False, or Decimal 0 for ExpenseCreate.markup_percentage).
C3_CreateSchemas ==
    validated.schema \in Schemas =>
        /\ (RequiredFields[validated.schema] \ DOMAIN validated.payload # {})
              => ~validated.result.ok
        /\ ExactlyRequired =>
              /\ validated.result.ok
              /\ DOMAIN validated.result.value =
                    RequiredFields[validated.schema]
                        \cup OptionalFields[validated.schema]
              /\ \A n \in RequiredFields[validated.schema] :
                    validated.result.value[n] = validated.payload[n]
              /\ \A n \in OptionalFields[validated.schema] :
                    validated.result.value[n] =
                        DeclaredDefault(validated.schema, n)

\* C3 witness: an ExpenseCreate with exactly its required fields has been
\* accepted, markup_percentage at Decimal 0.
C3_Witness ==
    /\ validated.schema = "ExpenseCreate"
    /\ ExactlyRequired
    /\ validated.result.ok
    /\ validated.result.value["markup_percentage"] = Dec(0, 0)

\* C5: every stored TimeEntry has total_amount = hours * rate_per_hour: the
\* total is computed when the TimeEntry is built from a TimeEntryCreate and
\* kept through every update of hours or rate_per_hour.
C5_TimeEntryTotal ==
    \A i \in DOMAIN db["time_entries"] :
        DecEq(db["time_entries"][i]["total_amount"],
              DecMul(db["time_entries"][i]["hours"],
                     db["time_entries"][i]["rate_per_hour"]))

\* C6: every stored Expense has
\* total_amount = amount * (1 + markup_percentage / 100), at the default
\* markup of 0 and through every update of amount or markup_percentage
\* (both sides are compared times 100, which keeps the division exact).
C6_ExpenseTotal ==
    \A i \in DOMAIN db["expenses"] :
        DecEq(DecMul(db["expenses"][i]["total_amount"], Dec(100, 0)),
              DecMul(db["expenses"][i]["amount"],
                     DecAdd(Dec(100, 0),
                            db["expenses"][i]["markup_percentage"])))

\* C7: every stored Invoice has
\* total_amount = subtotal_time + subtotal_expenses, freshly created from an
\* InvoiceCreate and through every update of either subtotal.
C7_InvoiceTotal ==
    \A i \in DOMAIN db["invoices"] :
        DecEq(db["invoices"][i]["total_amount"],
              DecAdd(db["invoices"][i]["subtotal_time"],
                     db["invoices"][i]["subtotal_expenses"]))

\* The Account reached from Account i by following parent_account_id at most
\* n times has no parent.
RECURSIVE ReachesRoot(_, _)
ReachesRoot(i, n) ==
    \/ db["accounts"][i]["parent_account_id"] = None
    \/ /\ n > 0
       /\ db["accounts"][i]["parent_account_id"].int \in DOMAIN db["accounts"]
       /\ ReachesRoot(db["accounts"][i]["parent_account_id"].int, n - 1)

\* C8: the Account parent relation is acyclic: following parent_account_id
\* from any stored Account ends at an Account with no parent.
C8_AccountTreeAcyclic ==
    \A i \in DOMAIN db["accounts"] : ReachesRoot(i, Len(db["accounts"]))

\* The sum of the amounts of the first n TrustTransactions that name
\* TrustAccount a.
RECURSIVE RunningSum(_, _)
RunningSum(a, n) ==
    IF n = 0 THEN Dec(0, 0)
    ELSE IF db["trust_transactions"][n]["trust_account_id"] = IntV(a)
         THEN DecAdd(RunningSum(a, n - 1),
                     db["trust_transactions"][n]["amount"])
         ELSE RunningSum(a, n - 1)

\* C10: every stored TrustAccount's current_balance is the sum of the
\* amounts of the TrustTransactions that name it (0 when none does).
C10_TrustBalance ==
    \A a \in DOMAIN db["trust_accounts"] :
        DecEq(db["trust_accounts"][a]["current_balance"],
              RunningSum(a, Len(db["trust_transactions"])))

\* The stored JournalEntry rows that carry reference number r.
EntriesOf(r) ==
    {i \in DOMAIN db["journal_entries"] :
        db["journal_entries"][i]["reference_number"] = r}

\* The sum of field f over the first n JournalEntry rows that carry
\* reference number r.
RECURSIVE JournalSum(_, _, _)
JournalSum(r, f, n) ==
    IF n = 0 THEN Dec(0, 0)
    ELSE IF n \in EntriesOf(r)
         THEN DecAdd(JournalSum(r, f, n - 1), db["journal_entries"][n][f])
         ELSE JournalSum(r, f, n - 1)

\* Under reference number r both sides are recorded: some entry debits and
\* some entry credits.
BothSidesRecorded(r) ==
    /\ \E i \in EntriesOf(r) :
          ~DecEq(db["journal_entries"][i]["debit_amount"], Dec(0, 0))
    /\ \E i \in EntriesOf(r) :
          ~DecEq(db["journal_entries"][i]["credit_amount"], Dec(0, 0))

\* C11: double-entry balance: the JournalEntry rows recorded for one
\* financial event (one reference number), once both its debit and its
\* credit side are recorded, have equal sums of debit_amount and of
\* credit_amount, in every reachable state of the journal.
C11_DoubleEntryBalance ==
    \A r \in Ledger.refs :
        BothSidesRecorded(r) =>
            DecEq(JournalSum(r, "debit_amount", Len(db["journal_entries"])),
                  JournalSum(r, "credit_amount", Len(db["journal_entries"])))

\* The place of a billable status on the path
\* non_billable -> billable -> billed.
BillableRank(v) ==
    CASE v = Str("non_billable") -> 0
      [] v = Str("billable") -> 1
      [] v = Str("billed") -> 2

\* The step creates Activities only as non_billable.
CreatedNonBillable ==
    \A i \in DOMAIN db'["activities"] \ DOMAIN db["activities"] :
        db'["activities"][i]["billable_status"] = Str("non_billable")

\* The step leaves every stored Activity's billable_status where it is or
\* moves it one place forward.
MovesForward ==
    \A i \in DOMAIN db["activities"] :
        \/ BillableRank(db'["activities"][i]["billable_status"])
              = BillableRank(db["activities"][i]["billable_status"])
        \/ BillableRank(db'["activities"][i]["billable_status"])
              = BillableRank(db["activities"][i]["billable_status"]) + 1

\* C12: an Activity is created with billable_status non_billable, and every
\* later step leaves the status or moves it one place forward along
\* non_billable -> billable -> billed: never backwards, never from
\* non_billable straight to billed.
C12_BillableStatusForward == [][CreatedNonBillable /\ MovesForward]_vars

=============================================================================
